---- MODULE Spec2Model ----
(***************************************************************************)
(* Model of src/strategy/deduction.rs: the Deductions ledger (three flat   *)
(* Vecs), its read path (len, get, iter / Iter::next, with_slices) and the *)
(* shape-based classification Deduction::strategy.                         *)
(*                                                                         *)
(* Rust values are modelled as follows.                                    *)
(*   Vec<T>, &[T]        sequences (1-based here, 0-based in the source)   *)
(*   Range<usize>        [start |-> s, end |-> e], half open, 0-based      *)
(*   Option<T>           [some |-> FALSE]  or  [some |-> TRUE, val |-> v]  *)
(*   a call's outcome    [panic |-> TRUE]  or  [panic |-> FALSE, val |-> v]*)
(*   Deduction<T>        a record with a "tag" field and the variant's     *)
(*                       fields; T is a Range (stored) or a sequence of    *)
(*                       candidates (materialized)                         *)
(*   Set<T>              a finite set                                      *)
(***************************************************************************)
EXTENDS Integers, Sequences, FiniteSets

VARIABLES deductions, deduced_entries, eliminated_entries,
          live_iter, pushed, passes, op, ret, panicked

ledger == <<deductions, deduced_entries, eliminated_entries>>
vars == <<deductions, deduced_entries, eliminated_entries,
          live_iter, pushed, passes, op, ret, panicked>>

----------------------------------------------------------------------------
(* Bounds of the model.                                                    *)

\* Records appended to one ledger.
MaxDeductions == 2
\* Length of a conflicts slice handed to strategy() directly.
MaxSliceLen == 2
\* Positions 0..MaxPos may occur in a positions set handed to strategy().
MaxPos == 5

----------------------------------------------------------------------------
(* Option and call outcomes.                                               *)

None == [some |-> FALSE]
Some(v) == [some |-> TRUE, val |-> v]

Panic == [panic |-> TRUE]
Ok(v) == [panic |-> FALSE, val |-> v]

----------------------------------------------------------------------------
(* Collaborators from crate::board and crate::bitset.                      *)

\* A cell is 0..80, row-major.  Cell::row_pos is the cell's position within
\* its row (its column index), Cell::col_pos the position within its column
\* (its row index), Cell::block_pos the position within its 3x3 block.
row_pos(cell) == cell % 9
col_pos(cell) == cell \div 9
block_pos(cell) == ((cell \div 9) % 3) * 3 + ((cell % 9) % 3)

\* House::categorize: houses 0..8 are rows, 9..17 columns, 18..26 blocks.
categorize(house) ==
    IF house < 9 THEN [kind |-> "Row", index |-> house]
    ELSE IF house < 18 THEN [kind |-> "Col", index |-> house - 9]
    ELSE [kind |-> "Block", index |-> house - 18]

\* Set<T>: as_set, overlaps, len.
as_set(x) == {x}
overlaps(a, b) == a \cap b # {}
set_len(s) == Cardinality(s)

----------------------------------------------------------------------------
(* Deduction<T>.                                                           *)

NakedSingles(c) == [tag |-> "NakedSingles", c |-> c]
HiddenSingles(c, h) == [tag |-> "HiddenSingles", c |-> c, h |-> h]
LockedCandidates(digit, miniline, is_pointing, conflicts) ==
    [tag |-> "LockedCandidates", digit |-> digit, miniline |-> miniline,
     is_pointing |-> is_pointing, conflicts |-> conflicts]
Subsets(house, positions, digits, conflicts) ==
    [tag |-> "Subsets", house |-> house, positions |-> positions,
     digits |-> digits, conflicts |-> conflicts]
BasicFish(digit, lines, positions, conflicts) ==
    [tag |-> "BasicFish", digit |-> digit, lines |-> lines,
     positions |-> positions, conflicts |-> conflicts]
NonExhaustive == [tag |-> "__NonExhaustive"]

HasConflicts(d) == d.tag \in {"LockedCandidates", "Subsets", "BasicFish"}

Range(s, e) == [start |-> s, end |-> e]

----------------------------------------------------------------------------
(* Deduction::with_slices and the slice indexing it performs.              *)

\* A plausible slip: clamp the range to the buffer instead of failing.
slice_index_clamped(eliminated, range) ==
    LET e == IF range.end > Len(eliminated) THEN Len(eliminated) ELSE range.end
        s == IF range.start > e THEN e ELSE range.start
    IN  Ok(SubSeq(eliminated, s + 1, e))

\* A plausible slip: an inclusive start, dropping the first conflict.
slice_index_skip_first(eliminated, range) ==
    IF range.start > range.end \/ range.end > Len(eliminated)
    THEN Panic
    ELSE Ok(SubSeq(eliminated, range.start + 2, range.end))

\* &eliminated[conflicts]: Index<Range<usize>> for [T] panics when
\* start > end or end > len, and otherwise borrows eliminated[start..end).
slice_index(eliminated, range) ==
    IF range.start > range.end \/ range.end > Len(eliminated)
    THEN Panic
    ELSE Ok(SubSeq(eliminated, range.start + 1, range.end))

with_slices(self, eliminated) ==
    CASE self.tag = "NakedSingles" -> Ok(NakedSingles(self.c))
      [] self.tag = "HiddenSingles" -> Ok(HiddenSingles(self.c, self.h))
      [] self.tag = "LockedCandidates" ->
            LET s == slice_index(eliminated, self.conflicts)
            IN  IF s.panic THEN Panic
                ELSE Ok(LockedCandidates(self.digit, self.miniline,
                                         self.is_pointing, s.val))
      [] self.tag = "Subsets" ->
            LET s == slice_index(eliminated, self.conflicts)
            IN  IF s.panic THEN Panic
                ELSE Ok(Subsets(self.house, self.positions, self.digits, s.val))
      [] self.tag = "BasicFish" ->
            LET s == slice_index(eliminated, self.conflicts)
            IN  IF s.panic THEN Panic
                ELSE Ok(BasicFish(self.digit, self.lines, self.positions, s.val))
      [] self.tag = "__NonExhaustive" -> Ok(NonExhaustive)

----------------------------------------------------------------------------
(* Deduction::strategy.                                                    *)

\* A plausible slip: an off-by-one table (3 => XWing, 4 => Swordfish).
fish_match_shifted(n) ==
    CASE n = 3 -> Ok("XWing")
      [] n = 4 -> Ok("Swordfish")
      [] n = 5 -> Ok("Jellyfish")
      [] OTHER -> Panic

\* A plausible slip: a catch-all arm instead of unreachable!().
fish_match_coerced(n) ==
    CASE n = 2 -> Ok("XWing")
      [] n = 3 -> Ok("Swordfish")
      [] OTHER -> Ok("Jellyfish")

\* match positions.len() { 2 => XWing, 3 => Swordfish, 4 => Jellyfish,
\*                         _ => unreachable!() }
fish_match(n) ==
    CASE n = 2 -> Ok("XWing")
      [] n = 3 -> Ok("Swordfish")
      [] n = 4 -> Ok("Jellyfish")
      [] OTHER -> Panic

\* A plausible slip: the row and column projections swapped.
conflict_pos_swapped(house, conflict_cell) ==
    LET h == categorize(house)
    IN  CASE h.kind = "Row" -> col_pos(conflict_cell)
          [] h.kind = "Col" -> row_pos(conflict_cell)
          [] h.kind = "Block" -> block_pos(conflict_cell)

\* match house.categorize() { Row(_) => row_pos, Col(_) => col_pos,
\*                            Block(_) => block_pos }
conflict_pos(house, conflict_cell) ==
    LET h == categorize(house)
    IN  CASE h.kind = "Row" -> row_pos(conflict_cell)
          [] h.kind = "Col" -> col_pos(conflict_cell)
          [] h.kind = "Block" -> block_pos(conflict_cell)

\* match (is_hidden_subset, positions.len()) { ... _ => unreachable!() }
subsets_match(is_hidden_subset, n) ==
    CASE ~is_hidden_subset /\ n = 2 -> Ok("NakedPairs")
      [] ~is_hidden_subset /\ n = 3 -> Ok("NakedTriples")
      [] ~is_hidden_subset /\ n = 4 -> Ok("NakedQuads")
      [] is_hidden_subset /\ n = 2 -> Ok("HiddenPairs")
      [] is_hidden_subset /\ n = 3 -> Ok("HiddenTriples")
      [] is_hidden_subset /\ n = 4 -> Ok("HiddenQuads")
      [] OTHER -> Panic

\* A plausible slip: LockedCandidates told apart by is_pointing.
strategy_split_locked(self) ==
    CASE self.tag = "NakedSingles" -> Ok("NakedSingles")
      [] self.tag = "HiddenSingles" -> Ok("HiddenSingles")
      [] self.tag = "LockedCandidates" ->
            IF self.is_pointing THEN Ok("LockedCandidates") ELSE Ok("Claiming")
      [] self.tag = "BasicFish" -> fish_match(set_len(self.positions))
      [] self.tag = "Subsets" ->
            IF Len(self.conflicts) = 0 THEN Panic
            ELSE subsets_match(
                    overlaps(as_set(conflict_pos(self.house,
                                                 self.conflicts[1].cell)),
                             self.positions),
                    set_len(self.positions))
      [] self.tag = "__NonExhaustive" -> Panic

\* self is a Deduction<&[Candidate]>.  conflicts[0] panics on an empty
\* slice before anything else of the Subsets arm runs.
strategy(self) ==
    CASE self.tag = "NakedSingles" -> Ok("NakedSingles")
      [] self.tag = "HiddenSingles" -> Ok("HiddenSingles")
      [] self.tag = "LockedCandidates" -> Ok("LockedCandidates")
      [] self.tag = "BasicFish" -> fish_match(set_len(self.positions))
      [] self.tag = "Subsets" ->
            IF Len(self.conflicts) = 0 THEN Panic
            ELSE LET conflict_cell == self.conflicts[1].cell
                     pos == conflict_pos(self.house, conflict_cell)
                     is_hidden_subset == overlaps(as_set(pos), self.positions)
                 IN  subsets_match(is_hidden_subset, set_len(self.positions))
      [] self.tag = "__NonExhaustive" -> Panic

----------------------------------------------------------------------------
(* Deductions: len, get, iter, and Iter::next.                             *)

len == Len(deductions)

\* A plausible slip: an inclusive bound check.
vec_get_inclusive(v, index) ==
    IF index <= Len(v) /\ Len(v) > 0
    THEN Some(v[IF index < Len(v) THEN index + 1 ELSE Len(v)])
    ELSE None

\* A plausible slip: indexing from the back of the Vec.
vec_get_reversed(v, index) ==
    IF index < Len(v) THEN Some(v[Len(v) - index]) ELSE None

\* Vec::get: None out of bounds.
vec_get(v, index) ==
    IF index < Len(v) THEN Some(v[index + 1]) ELSE None

\* self.deductions.get(index).map(|d| d.clone().with_slices(&self.eliminated_entries))
get(index) ==
    LET d == vec_get(deductions, index)
    IN  IF ~d.some THEN Ok(None)
        ELSE LET w == with_slices(d.val, eliminated_entries)
             IN  IF w.panic THEN Panic ELSE Ok(Some(w.val))

NoIter == [live |-> FALSE]

\* A plausible slip: the new iterator starts past the first record.
iter_skip_first ==
    [live |-> TRUE,
     deductions |-> IF deductions = <<>> THEN <<>> ELSE Tail(deductions),
     eliminated_entries |-> eliminated_entries]

\* A plausible slip: one cursor kept across calls, so that a second pass
\* resumes where the Iter before it stopped.
iter_resumed ==
    [live |-> TRUE,
     deductions |-> IF live_iter.live THEN live_iter.deductions ELSE deductions,
     eliminated_entries |-> eliminated_entries]

\* Iter { deductions: self.deductions.iter(), eliminated_entries: &self.eliminated_entries }
\* The slice iterator is the sequence of records it has yet to yield.
iter ==
    [live |-> TRUE, deductions |-> deductions,
     eliminated_entries |-> eliminated_entries]

\* Iter::next: the outcome and the iterator afterwards.
next(it) ==
    IF it.deductions = <<>>
    THEN [out |-> Ok(None), it |-> it]
    ELSE LET w == with_slices(Head(it.deductions), it.eliminated_entries)
         IN  [out |-> IF w.panic THEN Panic ELSE Ok(Some(w.val)),
              it |-> [it EXCEPT !.deductions = Tail(it.deductions)]]

----------------------------------------------------------------------------
(* Inputs.                                                                 *)

Candidate(cell, digit) == [cell |-> cell, digit |-> digit]

\* Two candidates of row 2: cell 18 is at row position 0, cell 22 at 4.
c1 == Candidate(18, 1)
c2 == Candidate(22, 2)
Cands == {c1, c2}

SeqsUpTo(S, n) == UNION {[1..k -> S] : k \in 0..n}

\* What a strategy that keeps the producer's contract hands to the append
\* path: the record with the candidates it eliminates, none, one, or two in
\* an order that differs from the buffer's.  Subsets and BasicFish have
\* 2..4 positions, Subsets at least one conflict.
Appendable ==
    {NakedSingles(c1),
     HiddenSingles(c2, [kind |-> "Col", index |-> 4]),
     LockedCandidates(1, 6, TRUE, <<c1>>),
     LockedCandidates(2, 7, FALSE, <<>>),
     Subsets(2, {0, 1}, {1, 2}, <<c2, c1>>),
     BasicFish(3, {1, 4}, {0, 3}, <<c2, c1>>)}

----------------------------------------------------------------------------
(* The ledger under a producer that keeps the append contract.             *)

NoPasses == [cur |-> <<>>, done |-> FALSE, prev |-> <<>>, has_prev |-> FALSE]

\* The ledger is created empty.
Init ==
    /\ deductions = <<>>
    /\ deduced_entries = <<>>
    /\ eliminated_entries = <<>>
    /\ live_iter = NoIter
    /\ pushed = <<>>
    /\ passes = NoPasses
    /\ op = [name |-> "new"]
    /\ ret = Ok("Deductions")
    /\ panicked = FALSE

\* The append path: the conflicts go onto eliminated_entries as one
\* contiguous run and the record stores the resulting [start, end); a
\* single's candidate goes onto deduced_entries.  It needs &mut self, so no
\* Iter borrows the ledger.  pushed and passes are history variables: the
\* conflicts handed over with each record, and the items of the iter()
\* passes made over the ledger as it is now.
AppendDeduction(d) ==
    /\ ~panicked
    /\ ~live_iter.live
    /\ Len(deductions) < MaxDeductions
    /\ IF HasConflicts(d)
       THEN /\ eliminated_entries' = eliminated_entries \o d.conflicts
            /\ deductions' = Append(deductions,
                  [d EXCEPT !.conflicts =
                      Range(Len(eliminated_entries),
                            Len(eliminated_entries) + Len(d.conflicts))])
            /\ deduced_entries' = deduced_entries
            /\ pushed' = Append(pushed, d.conflicts)
       ELSE /\ eliminated_entries' = eliminated_entries
            /\ deductions' = Append(deductions, d)
            /\ deduced_entries' = Append(deduced_entries, d.c)
            /\ pushed' = Append(pushed, <<>>)
    /\ passes' = NoPasses
    /\ op' = [name |-> "append"]
    /\ ret' = Ok("()")
    /\ UNCHANGED <<live_iter, panicked>>

AppendStep == \E d \in Appendable : AppendDeduction(d)

LenCall ==
    /\ ~panicked
    /\ op' = [name |-> "len"]
    /\ ret' = Ok(len)
    /\ UNCHANGED <<ledger, live_iter, pushed, passes, panicked>>

\* get(index) for an index up to one past len().  op.twice says that the
\* call before was the same get, and op.first is what that call returned.
GetCall ==
    \E index \in 0..(len + 1) :
        LET twice == op.name = "get" /\ op.index = index
        IN  /\ ~panicked
            /\ op' = [name |-> "get", index |-> index, twice |-> twice,
                      first |-> IF twice THEN ret ELSE Ok("()")]
            /\ ret' = get(index)
            /\ panicked' = get(index).panic
            /\ UNCHANGED <<ledger, live_iter, pushed, passes>>

\* get(index).unwrap().strategy() for an index in bounds.
GetStrategyCall ==
    \E index \in 0..(len - 1) :
        LET g == get(index)
            r == IF g.panic THEN Panic ELSE strategy(g.val.val)
        IN  /\ ~panicked
            /\ op' = [name |-> "get.strategy", index |-> index]
            /\ ret' = r
            /\ panicked' = r.panic
            /\ UNCHANGED <<ledger, live_iter, pushed, passes>>

\* iter(): a new pass; the model keeps one Iter, which this one replaces.
IterCall ==
    /\ ~panicked
    /\ live_iter' = iter
    /\ passes' = IF passes.done
                 THEN [cur |-> <<>>, done |-> FALSE,
                       prev |-> passes.cur, has_prev |-> TRUE]
                 ELSE [passes EXCEPT !.cur = <<>>]
    /\ op' = [name |-> "iter"]
    /\ ret' = Ok("Iter")
    /\ UNCHANGED <<ledger, pushed, panicked>>

NextCall ==
    LET n == next(live_iter)
    IN  /\ ~panicked
        /\ live_iter.live
        /\ live_iter' = n.it
        /\ op' = [name |-> "next"]
        /\ ret' = n.out
        /\ panicked' = n.out.panic
        /\ passes' = IF n.out.panic THEN passes
                     ELSE IF n.out.val.some
                     THEN [passes EXCEPT !.cur = Append(@, n.out.val.val)]
                     ELSE [passes EXCEPT !.done = TRUE]
        /\ UNCHANGED <<ledger, pushed>>

\* The Iter goes out of scope and its borrow of the ledger ends.
DropIter ==
    /\ ~panicked
    /\ live_iter.live
    /\ live_iter' = NoIter
    /\ op' = [name |-> "drop"]
    /\ ret' = Ok("()")
    /\ UNCHANGED <<ledger, pushed, passes, panicked>>

NextRead ==
    \/ LenCall
    \/ GetCall
    \/ GetStrategyCall
    \/ IterCall
    \/ NextCall
    \/ DropIter

Next == AppendStep \/ NextRead

Spec == Init /\ [][Next]_vars

----------------------------------------------------------------------------
(* Any ledger value: the fields are pub(crate), and the read path trusts   *)
(* whatever ranges the records hold.                                       *)

RawBuffers == {<<>>, <<c1>>, <<c1, c2>>}

\* [0,1) and [1,2) fit a buffer of two; [0,3) ends past every buffer;
\* [2,1) starts after its end.
RawRanges == {Range(0, 1), Range(1, 2), Range(0, 3), Range(2, 1)}

RawRecords ==
    {NakedSingles(c1), HiddenSingles(c2, [kind |-> "Col", index |-> 4]),
     NonExhaustive}
    \cup {LockedCandidates(1, 6, TRUE, r) : r \in RawRanges}
    \cup {Subsets(2, {0, 1}, {1, 2}, r) : r \in RawRanges}
    \cup {BasicFish(3, {1, 4}, {0, 3}, r) : r \in RawRanges}

InitAny ==
    /\ deductions \in SeqsUpTo(RawRecords, MaxDeductions)
    /\ deduced_entries = <<>>
    /\ eliminated_entries \in RawBuffers
    /\ live_iter = NoIter
    /\ pushed = <<>>
    /\ passes = NoPasses
    /\ op = [name |-> "new"]
    /\ ret = Ok("Deductions")
    /\ panicked = FALSE

SpecAny == InitAny /\ [][NextRead]_vars

----------------------------------------------------------------------------
(* strategy() on any materialized record.                                  *)

\* Cells whose row, column and block positions differ: cell 5 is at row
\* position 5, column position 0, block position 2; cell 13 at 4, 1, 4;
\* cell 31 at 4, 3, 1.
SliceCands == {Candidate(5, 1), Candidate(13, 2), Candidate(31, 3)}
SliceInputs == SeqsUpTo(SliceCands, MaxSliceLen)
PositionSets == SUBSET (0..MaxPos)

\* Row 2, column 4, block 4.
HouseInputs == {2, 13, 22}

StrategyInputs ==
    {NakedSingles(c) : c \in SliceCands}
    \cup {HiddenSingles(c, [kind |-> k, index |-> 4]) :
            c \in SliceCands, k \in {"Row", "Col", "Block"}}
    \cup {LockedCandidates(dg, ml, p, cs) :
            dg \in {1, 9}, ml \in {0, 53}, p \in BOOLEAN, cs \in SliceInputs}
    \cup {Subsets(h, ps, ds, cs) :
            h \in HouseInputs, ps \in PositionSets,
            ds \in {{1, 2}, {3, 4, 5}}, cs \in SliceInputs}
    \cup {BasicFish(dg, ls, ps, cs) :
            dg \in {1, 9}, ls \in {{}, {0, 3}, {1, 4, 7}},
            ps \in PositionSets, cs \in SliceInputs}
    \cup {NonExhaustive}

\* A consumer holds one materialized record (op.self) ...
InitStrategy ==
    /\ deductions = <<>>
    /\ deduced_entries = <<>>
    /\ eliminated_entries = <<>>
    /\ live_iter = NoIter
    /\ pushed = <<>>
    /\ passes = NoPasses
    /\ op \in {[name |-> "hold", self |-> d] : d \in StrategyInputs}
    /\ ret = Ok("()")
    /\ panicked = FALSE

\* ... and asks it for its strategy.
StrategyCall ==
    /\ ~panicked
    /\ op.name = "hold"
    /\ op' = [name |-> "strategy", self |-> op.self]
    /\ ret' = strategy(op.self)
    /\ panicked' = strategy(op.self).panic
    /\ UNCHANGED <<ledger, live_iter, pushed, passes>>

SpecStrategy == InitStrategy /\ [][StrategyCall]_vars

----------------------------------------------------------------------------
(* Claims.                                                                 *)

Stored(i) == deductions[i + 1]
Corrupt(d) == HasConflicts(d) /\ d.conflicts.end > Len(eliminated_entries)

\* C1: after any sequence of appends, get(i) for every i < len() is a
\* present record whose conflicts are the candidates pushed for record i at
\* append time, in order, which are eliminated_entries[start..end) for the
\* stored range; a get call that was made returned just that.
C1_GetReturnsPushedConflicts ==
    /\ Len(pushed) = len
    /\ \A i \in 0..(len - 1) :
          LET g == get(i)
          IN  /\ ~g.panic
              /\ g.val.some
              /\ g.val.val.tag = Stored(i).tag
              /\ HasConflicts(Stored(i)) =>
                    /\ g.val.val.conflicts = pushed[i + 1]
                    /\ g.val.val.conflicts =
                          [k \in 1..(Stored(i).conflicts.end
                                     - Stored(i).conflicts.start) |->
                              eliminated_entries[Stored(i).conflicts.start + k]]
    /\ (op.name = "get" /\ op.index < len) =>
          /\ ~panicked
          /\ ret.val.some
          /\ HasConflicts(Stored(op.index)) =>
                ret.val.val.conflicts = pushed[op.index + 1]

\* The second record's conflicts <<c2, c1>> come back from behind the
\* first record's <<c1>>.
C1_Witness ==
    /\ op.name = "get"
    /\ op.index = 1
    /\ len = 2
    /\ pushed = << <<c1>>, <<c2, c1>> >>
    /\ ret = Ok(Some(Subsets(2, {0, 1}, {1, 2}, <<c2, c1>>)))

\* C2: in every ledger state, corrupt ones included, get(index) for
\* index >= len() is None and does not panic.
C2_GetOutOfBoundsIsNone ==
    /\ \A index \in len..(len + 2) : get(index) = Ok(None)
    /\ (op.name = "get" /\ op.index >= len) => (ret = Ok(None) /\ ~panicked)

\* get(len()) on a ledger whose last record holds a range past the buffer.
C2_Witness ==
    /\ op.name = "get"
    /\ op.index = len
    /\ len = 2
    /\ Corrupt(Stored(1))
    /\ ret = Ok(None)

\* get(0) on the empty ledger.
C2_WitnessEmpty ==
    /\ op.name = "get"
    /\ op.index = 0
    /\ len = 0
    /\ ret = Ok(None)

\* C3: every step leaves get(i) of every existing record as it was
\* (variant, scalar fields, conflicts) and never decreases len().
C3_IssuedRangesStayValid ==
    [][/\ len' >= len
       /\ \A i \in 0..(len - 1) : get(i)' = get(i)]_vars

\* A second record with conflicts has been appended behind a first one.
C3_Witness ==
    /\ op.name = "append"
    /\ len = 2
    /\ Stored(0).tag = "Subsets"
    /\ Stored(0).conflicts = Range(0, 2)
    /\ Stored(1).tag = "BasicFish"
    /\ Stored(1).conflicts = Range(2, 4)
    /\ get(0) = Ok(Some(Subsets(2, {0, 1}, {1, 2}, <<c2, c1>>)))

\* The position the claim names: the row position for a row, the column
\* position for a column, the block position for a block.
ProjectedPos(house, cell) ==
    IF house \in 0..8 THEN row_pos(cell)
    ELSE IF house \in 9..17 THEN col_pos(cell)
    ELSE block_pos(cell)

SubsetName(hidden, n) ==
    IF hidden THEN <<"HiddenPairs", "HiddenTriples", "HiddenQuads">>[n - 1]
    ELSE <<"NakedPairs", "NakedTriples", "NakedQuads">>[n - 1]

\* C4: strategy() of a Subsets record with conflicts and 2..4 positions is
\* the hidden variant of that size iff the first conflict's cell, projected
\* into the house's kind, is one of the positions, and the naked variant of
\* that size otherwise; records that differ only in digits or in conflicts
\* after the first get the same tag.
C4_SubsetsHiddenIffFirstConflictInPositions ==
    (/\ op.name = "strategy"
     /\ op.self.tag = "Subsets"
     /\ op.self.conflicts # <<>>
     /\ Cardinality(op.self.positions) \in 2..4) =>
        LET self == op.self
            pos == ProjectedPos(self.house, self.conflicts[1].cell)
        IN  /\ ~panicked
            /\ ret = Ok(SubsetName(pos \in self.positions,
                                   Cardinality(self.positions)))
            /\ \A ds \in {{1, 2}, {3, 4, 5}, {}}, cs \in SliceInputs :
                  (cs # <<>> /\ cs[1] = self.conflicts[1]) =>
                      strategy(Subsets(self.house, self.positions, ds, cs)) = ret

\* A column house: cell 31 is at column position 3, one of the three
\* positions, and at row position 4 and block position 1, which are not.
C4_Witness ==
    /\ op.name = "strategy"
    /\ op.self.tag = "Subsets"
    /\ op.self.house = 13
    /\ op.self.positions = {0, 3, 5}
    /\ op.self.conflicts = <<Candidate(31, 3), Candidate(5, 1)>>
    /\ ret = Ok("HiddenTriples")

\* C5: strategy() of a BasicFish record is XWing iff it has 2 positions,
\* Swordfish iff 3, Jellyfish iff 4, whatever its digit, lines (of another
\* size too) and conflicts (empty too).
C5_FishByPositionsLen ==
    (op.name = "strategy" /\ op.self.tag = "BasicFish") =>
        LET n == Cardinality(op.self.positions)
        IN  /\ ret = Ok("XWing") <=> n = 2
            /\ ret = Ok("Swordfish") <=> n = 3
            /\ ret = Ok("Jellyfish") <=> n = 4
            /\ \A dg \in {1, 9}, ls \in {{}, {0, 3}, {1, 4, 7}},
                  cs \in SliceInputs :
                  strategy(BasicFish(dg, ls, op.self.positions, cs)) = ret

\* Three lines, two positions, no conflicts.
C5_Witness ==
    /\ op.name = "strategy"
    /\ op.self.tag = "BasicFish"
    /\ Cardinality(op.self.lines) = 3
    /\ Cardinality(op.self.positions) = 2
    /\ op.self.conflicts = <<>>
    /\ ret = Ok("XWing")

\* C8: strategy() panics, returning no Strategy, on a BasicFish or Subsets
\* record whose positions.len() is not 2, 3 or 4, on a Subsets record with
\* no conflicts, and on the reserved variant.
C8_InconsistentRecordPanics ==
    (/\ op.name = "strategy"
     /\ \/ /\ op.self.tag \in {"BasicFish", "Subsets"}
           /\ Cardinality(op.self.positions) \notin 2..4
        \/ /\ op.self.tag = "Subsets"
           /\ op.self.conflicts = <<>>
        \/ op.self.tag = "__NonExhaustive") =>
        (ret = Panic /\ panicked)

\* A BasicFish record with five positions.
C8_Witness ==
    /\ op.name = "strategy"
    /\ op.self.tag = "BasicFish"
    /\ Cardinality(op.self.positions) = 5
    /\ panicked

\* A Subsets record of two positions and no conflicts.
C8_WitnessEmptyConflicts ==
    /\ op.name = "strategy"
    /\ op.self.tag = "Subsets"
    /\ Cardinality(op.self.positions) = 2
    /\ op.self.conflicts = <<>>
    /\ panicked

\* C6: a pass of iter() yields the records in storage order, the k-th item
\* being get(k), never more than len() of them, and the step after the
\* last one reports the end.
C6_IterYieldsGetInOrder ==
    LET k == Len(passes.cur)
    IN  /\ k <= len
        /\ \A j \in 1..k : get(j - 1) = Ok(Some(passes.cur[j]))
        /\ passes.done => k = len
        /\ live_iter.live =>
              next(live_iter).out = IF k < len THEN get(k) ELSE Ok(None)
        /\ op.name = "next" =>
              /\ ~panicked
              /\ IF ret.val.some
                 THEN ~passes.done /\ k >= 1 /\ ret.val.val = passes.cur[k]
                 ELSE passes.done

\* A pass over two records has ended.
C6_Witness ==
    /\ op.name = "next"
    /\ ret = Ok(None)
    /\ len = 2
    /\ passes.cur = <<LockedCandidates(1, 6, TRUE, <<c1>>),
                      BasicFish(3, {1, 4}, {0, 3}, <<c2, c1>>)>>

ReadOps == {"len", "get", "get.strategy", "iter", "next", "drop"}

\* C7: on an unchanged ledger a second get(i) returns what the first did, a
\* second iter() pass yields what the pass before it did, and get, len,
\* iter and next leave the three buffers as they were.
C7_MaterializationRepeatable ==
    /\ [](/\ (op.name = "get" /\ op.twice) => op.first = ret
          /\ passes.has_prev =>
                /\ Len(passes.cur) <= Len(passes.prev)
                /\ \A j \in 1..Len(passes.cur) : passes.cur[j] = passes.prev[j]
                /\ passes.done => passes.cur = passes.prev)
    /\ [][op'.name \in ReadOps => ledger' = ledger]_vars

\* A second pass over two records has ended, as the first one did, and the
\* buffers are what the appends left.
C7_Witness ==
    /\ passes.has_prev
    /\ passes.done
    /\ Len(passes.prev) = 2
    /\ passes.cur = passes.prev
    /\ op.name = "next"
    /\ eliminated_entries = <<c1, c2, c1>>

\* Two get(1) calls in a row.
C7_WitnessGet ==
    /\ op.name = "get"
    /\ op.twice
    /\ op.index = 1
    /\ len = 2
    /\ ret.val.some

\* C9: a stored range that ends past eliminated_entries makes get(i), and
\* the next() that reaches record i, panic: neither returns None or a
\* shorter slice.  NakedSingles and HiddenSingles materialize whatever the
\* buffer holds.
C9_CorruptRangePanics ==
    /\ \A i \in 0..(len - 1) :
          /\ Corrupt(Stored(i)) => get(i) = Panic
          /\ Stored(i).tag \in {"NakedSingles", "HiddenSingles"} =>
                get(i) = Ok(Some(Stored(i)))
    /\ (op.name = "get" /\ op.index < len /\ Corrupt(Stored(op.index))) =>
          (ret = Panic /\ panicked)
    /\ (op.name = "next" /\ live_iter.live) =>
          LET reached == len - Len(live_iter.deductions)
          IN  (reached >= 1 /\ Corrupt(Stored(reached - 1))) =>
                  (ret = Panic /\ panicked)

\* The pass yields the first record and panics at the second, whose range
\* [0,3) ends past the two-candidate buffer.
C9_Witness ==
    /\ op.name = "next"
    /\ len = 2
    /\ eliminated_entries = <<c1, c2>>
    /\ Stored(0) = Subsets(2, {0, 1}, {1, 2}, Range(1, 2))
    /\ Stored(1) = BasicFish(3, {1, 4}, {0, 3}, Range(0, 3))
    /\ passes.cur = <<Subsets(2, {0, 1}, {1, 2}, <<c2>>)>>
    /\ live_iter.deductions = <<>>
    /\ panicked

\* get(0) panics on a range [1,2) that starts inside a one-candidate buffer.
C9_WitnessGet ==
    /\ op.name = "get"
    /\ op.index = 0
    /\ len = 1
    /\ eliminated_entries = <<c1>>
    /\ Stored(0) = LockedCandidates(1, 6, TRUE, Range(1, 2))
    /\ panicked

\* Stored singles and LockedCandidates records of every payload, with the
\* empty range and the range of a whole buffer of n candidates.
SinglesAndLocked(n) ==
    {NakedSingles(c) : c \in Cands \cup SliceCands}
    \cup {HiddenSingles(c, [kind |-> k, index |-> x]) :
            c \in Cands \cup SliceCands, k \in {"Row", "Col", "Block"},
            x \in {0, 8}}
    \cup {LockedCandidates(dg, ml, p, r) :
            dg \in {1, 9}, ml \in {0, 53}, p \in BOOLEAN,
            r \in {Range(0, 0), Range(0, n), Range(n, n)}}

\* C10: get(i).strategy() of a record stored as NakedSingles, HiddenSingles
\* or LockedCandidates is that same tag, for every payload, empty conflicts
\* and both values of is_pointing; so it is for any such record
\* materialized against the buffer.
C10_SinglesAndLockedKeepTheirTag ==
    /\ \A i \in 0..(len - 1) :
          Stored(i).tag \in {"NakedSingles", "HiddenSingles", "LockedCandidates"} =>
              /\ get(i).val.val.tag = Stored(i).tag
              /\ strategy(get(i).val.val) = Ok(Stored(i).tag)
    /\ (/\ op.name = "get.strategy"
        /\ Stored(op.index).tag \in
              {"NakedSingles", "HiddenSingles", "LockedCandidates"}) =>
          (ret = Ok(Stored(op.index).tag) /\ ~panicked)
    /\ \A d \in SinglesAndLocked(Len(eliminated_entries)) :
          LET w == with_slices(d, eliminated_entries)
          IN  ~w.panic /\ w.val.tag = d.tag /\ strategy(w.val) = Ok(d.tag)

\* A claiming LockedCandidates record with no conflicts.
C10_Witness ==
    /\ op.name = "get.strategy"
    /\ op.index = 1
    /\ Stored(1) = LockedCandidates(2, 7, FALSE, Range(2, 2))
    /\ ret = Ok("LockedCandidates")

====
